---- MODULE Spec2Model ----
(***************************************************************************)
(* Model of fs-hardblast: a collision search against the base-37 rolling  *)
(* hash.  Four state machines share this module:                          *)
(*   SpecInv    the modular inverse minv32 (CPU and OpenCL host versions) *)
(*   SpecAlpha  Alphabet::new / compute_ranges / contains / simd_chunks   *)
(*   Spec       find_collisions_simd::<L>, called twice by its caller     *)
(*   SpecGrid   the OpenCL host and the lanes appending to the results    *)
(*              buffer                                                    *)
(* A u32 is a pair <<hi, lo>> of 16-bit halves: TLC's integers are 32-bit *)
(* signed, so the wraparound of the source is computed on halves.         *)
(***************************************************************************)
EXTENDS Integers, Sequences, FiniteSets, TLC

VARIABLES
    \* ---- SpecInv: PrecomputedSuffix::new::minv32
    inv_pc,             \* "idle" | "call"
    inv_a,              \* the argument a
    inv_cpu,            \* result of the CPU version (3 refinements)
    inv_cl,             \* result of the OpenCL-host version (4 refinements)
    \* ---- SpecAlpha: Alphabet<N>
    al_pc,              \* "idle" | "new" | "built" | "panic"
    al_in,              \* the byte list handed to Alphabet::new
    al_self,            \* <<the constructed Alphabet>>, <<>> before construction
    al_probe,           \* <<[char, ret]>>: the last contains() call, or <<>>
    al_split,           \* <<[L, simd, rem]>>: the last simd_chunks::<L>() call, or <<>>
    \* ---- Spec: find_collisions_simd
    pc,                 \* "idle" | "start" | "dfs" | "done" | "panic" | "oom"
    ALPHABET,           \* the const ALPHABET
    overflow_checks,    \* build profile: are `+` and `-` on u32 checked?
    lanes,              \* <<L of the first call, L of the second call>>
    call,               \* which call of find_collisions_simd is running
    prefix, suffix, max_len, target_hash,   \* the arguments
    sfx,                \* PrecomputedSuffix
    hash_base_stack, match_stack, matches,  \* the locals
    first,              \* what the first call returned
    \* ---- SpecGrid: results buffer of the OpenCL program
    g_pc,               \* host: "idle" | "launched" | "counted" | "read" | "fault"
    g_lane,             \* per lane: [pc, todo, idx]; pc is "search" | "found" |
                        \* "claimed" | "done"; idx is the claimed index, a local
                        \* that is dead (0 here) outside "claimed"
    g_count,            \* results_count_dev
    g_buf,              \* results_dev: slot -> number of writes it received
    g_writes,           \* the slot indices written so far
    g_found,            \* matches found by all lanes so far
    g_results_count,    \* host: results_count
    g_results,          \* host: results
    \* ---- SpecSolve: the trailing-character solve of PrecomputedSuffix
    so_pc,              \* "idle" | "call" | "ret" | "pop"
    so_base,            \* the bytes before the solved character
    so_suffix,          \* the suffix bytes
    so_target,          \* target_hash
    so_x,               \* a candidate 32-bit value for the trailing character
    so_ret              \* <<[solved, hash]>> once computed, <<>> before

invVars    == <<inv_pc, inv_a, inv_cpu, inv_cl>>
alphaVars  == <<al_pc, al_in, al_self, al_probe, al_split>>
searchVars == <<pc, ALPHABET, overflow_checks, lanes, call, prefix, suffix, max_len,
                target_hash, sfx, hash_base_stack, match_stack, matches, first>>
gridVars   == <<g_pc, g_lane, g_count, g_buf, g_writes, g_found, g_results_count,
                g_results>>
solveVars  == <<so_pc, so_base, so_suffix, so_target, so_x, so_ret>>
vars       == <<invVars, alphaVars, searchVars, gridVars, solveVars>>

-----------------------------------------------------------------------------
(* u32 arithmetic with wraparound, on 16-bit halves *)

W16 == 2 ^ 16
W8  == 2 ^ 8

U32Of(n) == <<n \div W16, n % W16>>      \* n < 2^31
ZERO32 == <<0, 0>>
ONE32  == <<0, 1>>

wrapping_add(a, b) ==
    LET lo == a[2] + b[2]
        hi == a[1] + b[1] + (lo \div W16)
    IN  <<hi % W16, lo % W16>>

wrapping_sub(a, b) ==
    LET lo == W16 + a[2] - b[2]
        hi == W16 + a[1] - b[1] - (IF lo < W16 THEN 1 ELSE 0)
    IN  <<hi % W16, lo % W16>>

\* the full 32-bit product of two 16-bit halves
Mul16(x, y) ==
    LET t0 == x * (y % W8)
        t1 == x * (y \div W8)
        s  == t0 + (t1 % W8) * W8
    IN  <<(t1 \div W8) + (s \div W16), s % W16>>

wrapping_mul(a, b) ==
    LET p     == Mul16(a[2], b[2])
        cross == Mul16(a[1], b[2])[2] + Mul16(a[2], b[1])[2]
    IN  <<(p[1] + cross) % W16, p[2]>>

Lt32(a, b) == a[1] < b[1] \/ (a[1] = b[1] /\ a[2] < b[2])

\* a ^ 2: bit 1 flipped
Xor2(a) == <<a[1], IF (a[2] \div 2) % 2 = 1 THEN a[2] - 2 ELSE a[2] + 2>>

is_multiple_of_2(a) == a[2] % 2 = 0

\* does the checked `+` or `-` on u32 overflow?
add_overflows(a, b) == a[1] + b[1] + ((a[2] + b[2]) \div W16) >= W16
sub_overflows(a, b) == Lt32(a, b)

FNV_PRIME == 37

RECURSIVE wrapping_pow(_, _)
wrapping_pow(b, n) == IF n = 0 THEN ONE32 ELSE wrapping_mul(wrapping_pow(b, n - 1), b)

RECURSIVE fnv_fold(_, _)
fnv_fold(hash, data) ==
    IF data = <<>> THEN hash
    ELSE fnv_fold(wrapping_add(wrapping_mul(hash, U32Of(FNV_PRIME)), U32Of(Head(data))),
                  Tail(data))

fnv_hash(data) == fnv_fold(ZERO32, data)

-----------------------------------------------------------------------------
(* PrecomputedSuffix::new::minv32 *)

Aborted == "abort"

\* one refinement: x = x * (y + 1); y = y * y
Refine(xy) == <<wrapping_mul(xy[1], wrapping_add(xy[2], ONE32)), wrapping_mul(xy[2], xy[2])>>

minv32_start(a) ==
    LET x == Xor2(wrapping_mul(U32Of(3), a))
    IN  <<x, wrapping_sub(ONE32, wrapping_mul(a, x))>>

minv32_short(a) ==
    IF is_multiple_of_2(a) THEN Aborted
    ELSE LET xy == Refine(minv32_start(a))
         IN  wrapping_mul(xy[1], wrapping_add(xy[2], ONE32))

\* src/src/main.rs: two refinements, then the closing multiplication
minv32(a) ==
    IF is_multiple_of_2(a) THEN Aborted
    ELSE LET xy == Refine(Refine(minv32_start(a)))
         IN  wrapping_mul(xy[1], wrapping_add(xy[2], ONE32))

\* src/opencl/src/main.rs: three refinements, then the closing multiplication
minv32_cl(a) ==
    IF is_multiple_of_2(a) THEN Aborted
    ELSE LET xy == Refine(Refine(Refine(minv32_start(a))))
         IN  wrapping_mul(xy[1], wrapping_add(xy[2], ONE32))

PrecomputedSuffix_uninverted(sfxBytes, target) ==
    LET hash == fnv_hash(sfxBytes)
        mult == wrapping_pow(U32Of(FNV_PRIME), Len(sfxBytes))
    IN  [hash |-> hash, mult |-> mult,
         target_shift |-> wrapping_mul(wrapping_sub(target, hash), mult)]

PrecomputedSuffix_new(sfxBytes, target) ==
    LET hash == fnv_hash(sfxBytes)
        mult == wrapping_pow(U32Of(FNV_PRIME), Len(sfxBytes))
    IN  [hash |-> hash, mult |-> mult,
         target_shift |-> wrapping_mul(wrapping_sub(target, hash), minv32(mult))]

-----------------------------------------------------------------------------
(* Alphabet<N>: src/src/alphabet.rs *)

None     == "none"
\* a panic of the const evaluation of Alphabet::new
Panicked == [panicked |-> TRUE, ranges |-> <<>>, bytes |-> <<>>]

U8_MAX  == 255
U8_SIZE == U8_MAX + 1

Swap(b, i, j) == [b EXCEPT ![i] = b[j], ![j] = b[i]]

\* the inner while loop of sort_bytes (indices are 1-based here)
RECURSIVE sort_inner(_, _)
sort_inner(bytes, j) ==
    IF j > 1 /\ bytes[j - 1] > bytes[j] THEN sort_inner(Swap(bytes, j, j - 1), j - 1)
    ELSE bytes

RECURSIVE sort_outer(_, _)
sort_outer(bytes, i) ==
    IF i <= Len(bytes) THEN sort_outer(sort_inner(bytes, i), i + 1) ELSE bytes

sort_bytes(bytes) == sort_outer(bytes, 2)

SetEnd(ranges, e) == [ranges EXCEPT ![Len(ranges)].end = e]

RECURSIVE compute_ranges_loop(_, _, _)
compute_ranges_loop(sorted, i, ranges) ==
    IF i > Len(sorted) THEN ranges
    ELSE IF sorted[i] # sorted[i - 1] + 1
         THEN compute_ranges_loop(sorted, i + 1,
                  Append(SetEnd(ranges, sorted[i - 1] + 1),
                         [start |-> sorted[i], end |-> U8_SIZE]))
         ELSE compute_ranges_loop(sorted, i + 1, ranges)

compute_ranges(sorted) ==
    IF sorted = <<>> THEN <<>>
    ELSE SetEnd(compute_ranges_loop(sorted, 2, <<[start |-> sorted[1], end |-> U8_SIZE]>>),
                sorted[Len(sorted)] + 1)

\* the duplicate scan of Alphabet::new reads `bytes`, the list as given
DuplicateScan(bytes) == \E i \in 2..Len(bytes) : bytes[i] = bytes[i - 1]

Alphabet_new(bytes) ==
    IF Len(bytes) > U8_MAX + 1 THEN Panicked
    ELSE LET sorted == sort_bytes(bytes)
         IN  IF DuplicateScan(bytes) THEN Panicked
             ELSE [panicked |-> FALSE, ranges |-> compute_ranges(sorted), bytes |-> sorted]

RECURSIVE contains_loop(_, _, _)
contains_loop(ranges, char, i) ==
    IF ~Lt32(char, U32Of(ranges[i].end)) THEN FALSE
    ELSE IF ~Lt32(char, U32Of(ranges[i].start)) THEN TRUE
    ELSE IF i = 1 THEN FALSE
    ELSE contains_loop(ranges, char, i - 1)

contains_bottom_up(self, char) ==
    \E i \in 1..Len(self.ranges) : ~Lt32(char, U32Of(self.ranges[i].start))

contains(self, char) ==
    IF self.ranges = <<>> THEN FALSE
    ELSE contains_loop(self.ranges, char, Len(self.ranges))

simd_prefilter(self, chars) ==
    IF self.ranges = <<>> THEN FALSE
    ELSE LET alphabet_end == U32Of(self.ranges[Len(self.ranges)].end)
         IN  \E l \in 1..Len(chars) : Lt32(chars[l], alphabet_end)

Min(a, b) == IF a < b THEN a ELSE b

RECURSIVE simd_chunks_loop(_, _, _, _)
simd_chunks_loop(bytes, L, i, simd) ==
    LET j     == Min(L, Len(bytes) - i)
        chunk == [k \in 1..j |-> U32Of(bytes[i + k])]
    IN  IF j < L THEN [simd |-> simd, rem |-> chunk]
        ELSE simd_chunks_loop(bytes, L, i + j, Append(simd, chunk))

simd_chunks_overlap(self, L) ==
    LET r == simd_chunks_loop(self.bytes, L, 0, <<>>)
    IN  IF r.simd = <<>> THEN r
        ELSE [simd |-> r.simd, rem |-> r.rem \o <<r.simd[Len(r.simd)][L]>>]

simd_chunks(self, L) == simd_chunks_loop(self.bytes, L, 0, <<>>)

-----------------------------------------------------------------------------
(* Bounds and input sets *)

MaxInvLo    == 24      \* SpecInv: low halves 0..MaxInvLo and 2^16-1-MaxInvLo..2^16-1
MaxAlphaLen == 3       \* SpecAlpha: longest byte list handed to Alphabet::new

InvHi     == {0, 1, 2 ^ 15, W16 - 1, 4660}
InvInputs == {<<h, l>> : h \in InvHi,
                         l \in (0..MaxInvLo) \cup {W16 - 1 - k : k \in 0..MaxInvLo}}

AlphaBytes  == {0, 46, 47, 48, 255}
RECURSIVE SeqsUpTo(_, _)
SeqsUpTo(S, n) ==
    IF n = 0 THEN {<<>>}
    ELSE LET shorter == SeqsUpTo(S, n - 1)
         IN  shorter \cup {Append(s, x) : s \in {t \in shorter : Len(t) = n - 1}, x \in S}
AlphaInputs == SeqsUpTo(AlphaBytes, MaxAlphaLen)
ProbeChars  == {U32Of(v) : v \in 0..U8_MAX} \cup {<<0, U8_SIZE>>, <<1, 46>>, <<W16 - 1, W16 - 1>>}
LaneWidths  == {1, 2, 4}

-----------------------------------------------------------------------------
(* Idle values of each machine's variables *)

InvIdle == inv_pc = "idle" /\ inv_a = ZERO32 /\ inv_cpu = None /\ inv_cl = None

AlphaIdle ==
    al_pc = "idle" /\ al_in = <<>> /\ al_self = <<>> /\ al_probe = <<>> /\ al_split = <<>>

SearchIdle ==
    /\ pc = "idle" /\ ALPHABET = Alphabet_new(<<>>) /\ overflow_checks = FALSE /\ lanes = <<1, 1>>
    /\ call = 0 /\ prefix = <<>> /\ suffix = <<>> /\ max_len = 0 /\ target_hash = ZERO32
    /\ sfx = PrecomputedSuffix_new(<<>>, ZERO32) /\ hash_base_stack = <<>> /\ match_stack = <<>> /\ matches = <<>>
    /\ first = None

SolveIdle ==
    /\ so_pc = "idle" /\ so_base = <<>> /\ so_suffix = <<>> /\ so_target = ZERO32
    /\ so_x = ZERO32 /\ so_ret = <<>>

GridIdle ==
    /\ g_pc = "idle" /\ g_lane = <<>> /\ g_count = 0 /\ g_buf = <<>> /\ g_writes = {}
    /\ g_found = 0 /\ g_results_count = 0 /\ g_results = <<>>

-----------------------------------------------------------------------------
(* SpecInv: minv32 applied to sampled arguments *)

InitInv ==
    /\ inv_pc = "call" /\ inv_a \in InvInputs /\ inv_cpu = None /\ inv_cl = None
    /\ SolveIdle /\ AlphaIdle /\ SearchIdle /\ GridIdle

\* PrecomputedSuffix::new::minv32 of src/src/main.rs
CallMinv32 ==
    /\ inv_pc = "call" /\ inv_cpu = None
    /\ inv_cpu' = minv32(inv_a)
    /\ UNCHANGED <<inv_pc, inv_a, inv_cl, solveVars, alphaVars, searchVars, gridVars>>

\* PrecomputedSuffix::new::minv32 of src/opencl/src/main.rs
CallMinv32Cl ==
    /\ inv_pc = "call" /\ inv_cl = None
    /\ inv_cl' = minv32_cl(inv_a)
    /\ UNCHANGED <<inv_pc, inv_a, inv_cpu, solveVars, alphaVars, searchVars, gridVars>>

NextInv == CallMinv32 \/ CallMinv32Cl

SpecInv == InitInv /\ [][NextInv]_vars

\* C9: for odd a both versions of minv32 return x with a * x == 1 under 32-bit
\* wraparound; for even a the call aborts and returns no value.
C9_InverseCorrect ==
    /\ inv_cpu # None =>
          IF is_multiple_of_2(inv_a) THEN inv_cpu = Aborted
          ELSE inv_cpu # Aborted /\ wrapping_mul(inv_a, inv_cpu) = ONE32
    /\ inv_cl # None =>
          IF is_multiple_of_2(inv_a) THEN inv_cl = Aborted
          ELSE inv_cl # Aborted /\ wrapping_mul(inv_a, inv_cl) = ONE32

\* both versions have returned the inverse of an odd a = 0xFFFF_FFFD
C9_Witness ==
    /\ inv_a = <<W16 - 1, W16 - 3>>
    /\ inv_cpu # None /\ inv_cpu # Aborted
    /\ inv_cl # None /\ inv_cl # Aborted

-----------------------------------------------------------------------------
(* SpecAlpha: Alphabet::new on arbitrary byte lists, then contains and simd_chunks *)

InitAlpha ==
    /\ al_pc = "new" /\ al_in \in AlphaInputs
    /\ al_self = <<>> /\ al_probe = <<>> /\ al_split = <<>>
    /\ InvIdle /\ SolveIdle /\ SearchIdle /\ GridIdle

AlphabetNew ==
    /\ al_pc = "new"
    /\ ~Alphabet_new(al_in).panicked
    /\ al_self' = <<Alphabet_new(al_in)>>
    /\ al_pc' = "built"
    /\ UNCHANGED <<al_in, al_probe, al_split, invVars, solveVars, searchVars, gridVars>>

AlphabetNewPanic ==
    /\ al_pc = "new"
    /\ Alphabet_new(al_in).panicked
    /\ al_pc' = "panic"
    /\ UNCHANGED <<al_in, al_self, al_probe, al_split, invVars, solveVars, searchVars, gridVars>>

\* the alphabet is immutable: one call per behaviour reaches every outcome
AlphabetContains ==
    /\ al_pc = "built" /\ al_probe = <<>> /\ al_split = <<>>
    /\ \E char \in ProbeChars :
          al_probe' = <<[char |-> char, ret |-> contains(al_self[1], char)]>>
    /\ UNCHANGED <<al_pc, al_in, al_self, al_split, invVars, solveVars, searchVars, gridVars>>

AlphabetSimdChunks ==
    /\ al_pc = "built" /\ al_probe = <<>> /\ al_split = <<>>
    /\ \E L \in LaneWidths :
          al_split' = <<[L |-> L] @@ simd_chunks(al_self[1], L)>>
    /\ UNCHANGED <<al_pc, al_in, al_self, al_probe, invVars, solveVars, searchVars, gridVars>>

NextAlpha == AlphabetNew \/ AlphabetNewPanic \/ AlphabetContains \/ AlphabetSimdChunks

SpecAlpha == InitAlpha /\ [][NextAlpha]_vars

PairwiseDistinct(bytes) ==
    \A i, j \in 1..Len(bytes) : i # j => bytes[i] # bytes[j]

\* C4: Alphabet::new panics whenever the input holds a duplicate byte, wherever the
\* two equal bytes sit, and whenever it has more than 256 entries; it succeeds only
\* for pairwise-distinct input.
C4_DuplicatePanics ==
    al_pc \in {"built", "panic"} =>
        (al_pc = "panic" <=> (~PairwiseDistinct(al_in) \/ Len(al_in) > U8_SIZE))

\* C10: for an alphabet built from pairwise-distinct bytes, contains(v) is true iff
\* v is one of the symbol bytes, for every v in 0..256.
C10_ContainsIsMembership ==
    (al_pc = "built" /\ PairwiseDistinct(al_in) /\ al_probe # <<>>
        /\ Lt32(al_probe[1].char, U32Of(U8_SIZE)))
    => (al_probe[1].ret <=> \E i \in 1..Len(al_in) : U32Of(al_in[i]) = al_probe[1].char)

\* contains(47) has answered on the three-range alphabet {0, 46, 48}: 47 sits in the
\* gap between two ranges
C10_Witness ==
    /\ al_pc = "built" /\ al_in = <<48, 0, 46>>
    /\ al_probe # <<>> /\ al_probe[1].char = <<0, 47>> /\ al_probe[1].ret = FALSE

-----------------------------------------------------------------------------
(* Match and find_collisions_simd: src/src/main.rs *)

\* a u64 is its eight bytes, most significant first
ZERO64 == <<0, 0, 0, 0, 0, 0, 0, 0>>

\* `v as u64` for a u32 v
AsU64(v) == <<0, 0, 0, 0, v[1] \div W8, v[1] % W8, v[2] \div W8, v[2] % W8>>

\* `x << 8 * k`
Shl(x, k) == [i \in 1..8 |-> IF i + k <= 8 THEN x[i + k] ELSE 0]

RECURSIVE BitOr(_, _)
BitOr(x, y) ==
    IF x = 0 THEN y
    ELSE IF y = 0 THEN x
    ELSE 2 * BitOr(x \div 2, y \div 2) + (IF x % 2 = 1 \/ y % 2 = 1 THEN 1 ELSE 0)

Or64(x, y) == [i \in 1..8 |-> BitOr(x[i], y[i])]

\* `x.rotate_right(8 * k)`: the rotation count is taken modulo 64 bits
RotateRight(x, k) == [i \in 1..8 |-> x[((i - 1 - (k % 8)) % 8) + 1]]

\* Match::bytes: to_be_bytes leaves the byte order as stored here
Match_bytes(m) == RotateRight(m.bytes_be, m.len)

\* `&m.bytes()[..m.len]` of main
MatchSlice(m) == SubSeq(Match_bytes(m), 1, m.len)

Last(q)    == q[Len(q)]
Front(q)   == SubSeq(q, 1, Len(q) - 1)

ShouldPushPastBound(seq) == seq.len # max_len + 1

\* `if seq.len != max_len`
ShouldPush(seq) == seq.len # max_len

\* solutions.iter().zip(chunk_arr).filter(contains).map(Match): lanes l.. of a group
RECURSIVE LaneMatches(_, _, _)
LaneMatches(solutions, found, l) ==
    IF l > Len(solutions) THEN <<>>
    ELSE (IF contains(ALPHABET, solutions[l]) THEN <<found[l]>> ELSE <<>>)
         \o LaneMatches(solutions, found, l + 1)

\* one full lane group of the loop body: acc = [hs, ms, out, panic]
ChunkPass(acc, hash_base, seq, chunk) ==
    LET L              == Len(chunk)
        next_hash_base == [l \in 1..L |->
                              wrapping_mul(wrapping_add(hash_base, chunk[l]),
                                           U32Of(FNV_PRIME))]
        solutions      == [l \in 1..L |-> wrapping_sub(sfx.target_shift, next_hash_base[l])]
        pushed         == [l \in 1..L |->
                              [bytes_be |-> Or64(Shl(seq.bytes_be, 1), AsU64(chunk[l])),
                               len |-> seq.len + 1]]
        found          == [l \in 1..L |->
                              [bytes_be |-> Or64(Or64(Shl(seq.bytes_be, 2),
                                                      Shl(AsU64(chunk[l]), 1)),
                                                 AsU64(solutions[l])),
                               len |-> seq.len]]
    IN  [hs    |-> IF ShouldPush(seq) THEN acc.hs \o next_hash_base ELSE acc.hs,
         ms    |-> IF ShouldPush(seq) THEN acc.ms \o pushed ELSE acc.ms,
         out   |-> IF simd_prefilter(ALPHABET, solutions)
                   THEN acc.out \o LaneMatches(solutions, found, 1)
                   ELSE acc.out,
         panic |-> acc.panic]

\* one symbol of the scalar remainder: `hash_base + c` and
\* `suffix.target_shift - next_hash_base` are the checked operators
ScalarPass(acc, hash_base, seq, c) ==
    LET next_hash_base == wrapping_mul(wrapping_add(hash_base, c), U32Of(FNV_PRIME))
        s              == wrapping_sub(sfx.target_shift, next_hash_base)
        overflow       == overflow_checks /\ (add_overflows(hash_base, c)
                                              \/ sub_overflows(sfx.target_shift,
                                                               next_hash_base))
    IN  IF acc.panic \/ overflow THEN [acc EXCEPT !.panic = TRUE]
        ELSE [hs    |-> IF ShouldPush(seq) THEN Append(acc.hs, next_hash_base) ELSE acc.hs,
              ms    |-> IF ShouldPush(seq)
                        THEN Append(acc.ms,
                                 [bytes_be |-> Or64(Shl(seq.bytes_be, 1), AsU64(c)),
                                  len |-> seq.len + 1])
                        ELSE acc.ms,
              out   |-> IF contains(ALPHABET, s)
                        THEN Append(acc.out,
                                 [bytes_be |-> Or64(Or64(Shl(seq.bytes_be, 2),
                                                         Shl(AsU64(c), 1)),
                                                    AsU64(s)),
                                  len |-> seq.len])
                        ELSE acc.out,
              panic |-> FALSE]

RECURSIVE ChunkLoop(_, _, _, _, _)
ChunkLoop(acc, hash_base, seq, chunks, k) ==
    IF k > Len(chunks) THEN acc
    ELSE ChunkLoop(ChunkPass(acc, hash_base, seq, chunks[k]), hash_base, seq, chunks, k + 1)

RECURSIVE ScalarLoop(_, _, _, _, _)
ScalarLoop(acc, hash_base, seq, rem, k) ==
    IF k > Len(rem) THEN acc
    ELSE ScalarLoop(ScalarPass(acc, hash_base, seq, rem[k]), hash_base, seq, rem, k + 1)

\* the body of the `while let` loop for one popped (hash_base, seq)
LoopBody(hash_base, seq, L) ==
    LET split == simd_chunks(ALPHABET, L)
        acc0  == [hs |-> <<>>, ms |-> <<>>, out |-> <<>>, panic |-> FALSE]
    IN  ScalarLoop(ChunkLoop(acc0, hash_base, seq, split.simd, 1),
                   hash_base, seq, split.rem, 1)

\* lines 141-175: the empty string, the one-character string, the first frontier entry
Prologue ==
    LET suf              == PrecomputedSuffix_new(suffix, target_hash)
        prefix_hash      == fnv_hash(prefix)
        prefix_hash_base == wrapping_mul(prefix_hash, U32Of(FNV_PRIME))
        one_length_collision == wrapping_sub(suf.target_shift, prefix_hash_base)
    IN  [suffix  |-> suf,
         matches |-> (IF prefix_hash = target_hash
                      THEN <<[bytes_be |-> ZERO64, len |-> 0]>> ELSE <<>>)
                     \o (IF contains(ALPHABET, one_length_collision)
                         THEN <<[bytes_be |-> AsU64(one_length_collision), len |-> 1]>>
                         ELSE <<>>),
         hash_base_stack |-> <<prefix_hash_base>>,
         match_stack     |-> <<[bytes_be |-> ZERO64, len |-> 2]>>]

-----------------------------------------------------------------------------
(* Spec: two calls of find_collisions_simd on the same arguments, with lane widths
   lanes[1] and lanes[2] *)

MaxLen   == 3       \* largest max_len tried (the program allows up to 8)
MaxStack == 16      \* frontier entries the allocator can hold

\* the second alphabet holds '0' and 'z', 74 = 2 * 37 apart, as the program's does:
\* "az" and "c0" hash alike
SearchAlphabets == {<<97, 46, 98>>, <<122, 48, 99, 97>>}
Prefixes        == {<<47>>, <<47, 109>>}
Suffixes        == {<<>>, <<46, 100>>}
LanePairs       == {<<1, 2>>, <<1, 4>>, <<2, 4>>}

\* strings whose completion the target is taken from; b is the sorted alphabet
Seeds(b) == {<<>>, <<b[1]>>, <<b[2], b[Len(b)]>>, <<b[2], b[Len(b)], b[1]>>,
             <<b[1], b[1], b[2], b[Len(b)]>>}
Targets(b, pre, suf) ==
    {fnv_hash(pre \o s \o suf) : s \in Seeds(b)} \cup {fnv_hash(pre)}

Init ==
    /\ pc = "start" /\ call = 1
    /\ \E bytes \in SearchAlphabets : ALPHABET = Alphabet_new(bytes)
    /\ overflow_checks \in BOOLEAN
    /\ lanes \in LanePairs
    /\ prefix \in Prefixes /\ suffix \in Suffixes
    /\ max_len \in 0..MaxLen
    /\ target_hash \in Targets(ALPHABET.bytes, prefix, suffix)
    /\ sfx = PrecomputedSuffix_new(<<>>, ZERO32)
    /\ hash_base_stack = <<>> /\ match_stack = <<>> /\ matches = <<>> /\ first = None
    /\ InvIdle /\ SolveIdle /\ AlphaIdle /\ GridIdle

Start ==
    /\ pc = "start"
    /\ sfx' = Prologue.suffix
    /\ matches' = Prologue.matches
    /\ hash_base_stack' = Prologue.hash_base_stack
    /\ match_stack' = Prologue.match_stack
    /\ pc' = "dfs"
    /\ UNCHANGED <<ALPHABET, overflow_checks, lanes, call, prefix, suffix, max_len,
                   target_hash, first, invVars, solveVars, alphaVars, gridVars>>

Popped == LoopBody(Last(hash_base_stack), Last(match_stack), lanes[call])

\* one iteration of the `while let` loop
Pop ==
    /\ pc = "dfs" /\ hash_base_stack # <<>>
    /\ ~Popped.panic
    /\ Len(hash_base_stack) - 1 + Len(Popped.hs) <= MaxStack
    /\ hash_base_stack' = Front(hash_base_stack) \o Popped.hs
    /\ match_stack' = Front(match_stack) \o Popped.ms
    /\ matches' = matches \o Popped.out
    /\ UNCHANGED <<pc, ALPHABET, overflow_checks, lanes, call, prefix, suffix, max_len,
                   target_hash, sfx, first, invVars, solveVars, alphaVars, gridVars>>

\* an iteration in which a checked `+` or `-` of the scalar remainder overflows
PopOverflow ==
    /\ pc = "dfs" /\ hash_base_stack # <<>>
    /\ Popped.panic
    /\ pc' = "panic"
    /\ UNCHANGED <<ALPHABET, overflow_checks, lanes, call, prefix, suffix, max_len,
                   target_hash, sfx, hash_base_stack, match_stack, matches, first,
                   invVars, solveVars, alphaVars, gridVars>>

\* an iteration whose pushes the allocator cannot hold: the process aborts
PopOutOfMemory ==
    /\ pc = "dfs" /\ hash_base_stack # <<>>
    /\ ~Popped.panic
    /\ Len(hash_base_stack) - 1 + Len(Popped.hs) > MaxStack
    /\ pc' = "oom"
    /\ UNCHANGED <<ALPHABET, overflow_checks, lanes, call, prefix, suffix, max_len,
                   target_hash, sfx, hash_base_stack, match_stack, matches, first,
                   invVars, solveVars, alphaVars, gridVars>>

\* the frontier is empty: `matches` is returned
Return ==
    /\ pc = "dfs" /\ hash_base_stack = <<>>
    /\ pc' = "done"
    /\ UNCHANGED <<ALPHABET, overflow_checks, lanes, call, prefix, suffix, max_len,
                   target_hash, sfx, hash_base_stack, match_stack, matches, first,
                   invVars, solveVars, alphaVars, gridVars>>

\* the caller keeps the result and calls again with the other lane width
NextCall ==
    /\ pc = "done" /\ call = 1
    /\ first' = matches
    /\ call' = 2
    /\ matches' = <<>>
    /\ pc' = "start"
    /\ UNCHANGED <<ALPHABET, overflow_checks, lanes, prefix, suffix, max_len,
                   target_hash, sfx, hash_base_stack, match_stack,
                   invVars, solveVars, alphaVars, gridVars>>

Next == Start \/ Pop \/ PopOverflow \/ PopOutOfMemory \/ Return \/ NextCall

Spec == Init /\ [][Next]_vars

-----------------------------------------------------------------------------
(* Claims about find_collisions_simd *)

\* the strings a result stands for: (len, bytes()[..len])
Strings(ms) == {MatchSlice(ms[i]) : i \in 1..Len(ms)}

Hits(s) == fnv_hash(prefix \o s \o suffix) = target_hash

\* every string over the alphabet of length 0..n that completes prefix|.|suffix
BruteForce(n) ==
    {s \in SeqsUpTo({ALPHABET.bytes[i] : i \in 1..Len(ALPHABET.bytes)}, n) : Hits(s)}

\* C1: every Match m of a returned result satisfies
\* fnv_hash(prefix | m.bytes()[..m.len] | suffix) == target, lengths 0 and 1 included.
C1_RoundTrip ==
    pc = "done" => \A i \in 1..Len(matches) : Hits(MatchSlice(matches[i]))

\* C2: the returned matches are exactly the strings over the alphabet of length
\* 0..=max_len whose hash(prefix | s | suffix) equals the target.
C2_Complete ==
    pc = "done" => Strings(matches) = BruteForce(max_len)

\* C3: the search runs to completion for every max_len, 0 and 1 included: a call
\* is running or has returned, it never ends any other way.  (Stated for the builds
\* whose arithmetic wraps, so that the overflow abort of the scalar pass is left out.)
C3_RunsToCompletion ==
    ~overflow_checks => pc \in {"start", "dfs", "done"}

\* C5 as claimed: the solved trailing character is not counted against max_len, so
\* the strings of total length max_len + 1 that complete the hash are returned too.
C5_BoundPlusOne ==
    pc = "done" => \A s \in BruteForce(max_len + 1) : s \in Strings(matches)

\* C5 as amended: max_len bounds the total length of a returned match, the solved
\* trailing character included.
C5_LenAtMostMaxLen ==
    pc = "done" => \A i \in 1..Len(matches) : matches[i].len <= max_len

\* a call with max_len = 3 has returned a match of total length 3
C5_Witness ==
    pc = "done" /\ max_len = 3 /\ \E i \in 1..Len(matches) : matches[i].len = 3

\* C6: a returned result never holds two matches with identical (len, bytes).
C6_NoDuplicates ==
    pc = "done" =>
        \A i, j \in 1..Len(matches) :
            i # j => <<matches[i].len, Match_bytes(matches[i])>>
                     # <<matches[j].len, Match_bytes(matches[j])>>

\* a call has returned two matches of the same length, found in the frontier loop
C6_Witness ==
    /\ pc = "done"
    /\ \E i, j \in 1..Len(matches) :
          i # j /\ matches[i].len = 2 /\ matches[j].len = 2

\* C7: the second call, with another lane width, returns the same set of matches as
\* the first call did.
C7_LaneWidthIndependent ==
    call = 2 =>
        /\ pc # "panic"
        /\ pc = "done" =>
              {<<first[i].len, Match_bytes(first[i])>> : i \in 1..Len(first)}
              = {<<matches[i].len, Match_bytes(matches[i])>> : i \in 1..Len(matches)}

\* C12: every hash-base computation of the search wraps modulo 2^32, in the vector
\* pass and in the scalar remainder pass alike, so no step of a search aborts on an
\* arithmetic overflow or underflow.
C12_NoOverflowAbort ==
    pc # "panic"

-----------------------------------------------------------------------------
(* SpecGrid: the results buffer of the OpenCL program.  The host is
   src/opencl/src/main.rs; the lanes are the kernel find_collisions, whose source
   is kernel.cl. *)

NumLanes   == 2     \* work items that search
MaxPerLane == 2     \* matches one lane may find
MaxBufLen  == 2     \* largest buf_len tried

GridLanes == 1..NumLanes

UnclampedCount(count, buf_len) == count

\* `results_count.min(buf_len as u32)`
ClampCount(count, buf_len) == Min(count, buf_len)

\* enqueue_read_buffer(&results_dev, .., results): the first n entries
ReadEntries(buf, n) == [i \in 1..n |-> IF i <= Len(buf) THEN buf[i] ELSE 0]

InitGrid ==
    /\ g_pc = "launched"
    /\ g_lane \in [GridLanes -> [pc : {"search"}, todo : 0..MaxPerLane, idx : {0}]]
    /\ g_count = 0
    /\ \E buf_len \in 1..MaxBufLen : g_buf = [i \in 1..buf_len |-> 0]
    /\ g_writes = {} /\ g_found = 0 /\ g_results_count = 0 /\ g_results = <<>>
    /\ InvIdle /\ SolveIdle /\ AlphaIdle /\ SearchIdle

\* a lane's sequential search comes upon a match
LaneFind(l) ==
    /\ g_pc = "launched"
    /\ g_lane[l].pc = "search" /\ g_lane[l].todo > 0
    /\ g_lane' = [g_lane EXCEPT ![l].pc = "found", ![l].todo = @ - 1]
    /\ g_found' = g_found + 1
    /\ UNCHANGED <<g_pc, g_count, g_buf, g_writes, g_results_count, g_results,
                   invVars, solveVars, alphaVars, searchVars>>

\* the atomic fetch-and-increment of the position counter
LaneClaim(l) ==
    /\ g_pc = "launched"
    /\ g_lane[l].pc = "found"
    /\ g_lane' = [g_lane EXCEPT ![l].pc = "claimed", ![l].idx = g_count]
    /\ g_count' = g_count + 1
    /\ UNCHANGED <<g_pc, g_buf, g_writes, g_found, g_results_count, g_results,
                   invVars, solveVars, alphaVars, searchVars>>

\* the claimed index lies inside the buffer: the match bytes are written to the slot
LaneWrite(l) ==
    /\ g_pc = "launched"
    /\ g_lane[l].pc = "claimed" /\ g_lane[l].idx < Len(g_buf)
    /\ g_buf' = [g_buf EXCEPT ![g_lane[l].idx + 1] = @ + 1]
    /\ g_writes' = g_writes \cup {g_lane[l].idx}
    /\ g_lane' = [g_lane EXCEPT ![l].pc = "search", ![l].idx = 0]
    /\ UNCHANGED <<g_pc, g_count, g_found, g_results_count, g_results,
                   invVars, solveVars, alphaVars, searchVars>>

\* the claimed index lies past the buffer: the write is skipped
LaneSkip(l) ==
    /\ g_pc = "launched"
    /\ g_lane[l].pc = "claimed" /\ g_lane[l].idx >= Len(g_buf)
    /\ g_lane' = [g_lane EXCEPT ![l].pc = "search", ![l].idx = 0]
    /\ UNCHANGED <<g_pc, g_count, g_buf, g_writes, g_found, g_results_count, g_results,
                   invVars, solveVars, alphaVars, searchVars>>

\* the lane's search is over
LaneExit(l) ==
    /\ g_pc = "launched"
    /\ g_lane[l].pc = "search" /\ g_lane[l].todo = 0
    /\ g_lane' = [g_lane EXCEPT ![l].pc = "done"]
    /\ UNCHANGED <<g_pc, g_count, g_buf, g_writes, g_found, g_results_count, g_results,
                   invVars, solveVars, alphaVars, searchVars>>

KernelComplete == \A l \in GridLanes : g_lane[l].pc = "done"

\* the blocking read of results_count_dev, which waits for kernel_event, and the clamp
HostReadCount ==
    /\ g_pc = "launched" /\ KernelComplete
    /\ g_results_count' = ClampCount(g_count, Len(g_buf))
    /\ g_pc' = "counted"
    /\ UNCHANGED <<g_lane, g_count, g_buf, g_writes, g_found, g_results,
                   invVars, solveVars, alphaVars, searchVars>>

\* the blocking read of results_count * TOTAL_LEN bytes of results_dev
HostReadResults ==
    /\ g_pc = "counted"
    /\ g_results' = ReadEntries(g_buf, g_results_count)
    /\ g_pc' = "read"
    /\ UNCHANGED <<g_lane, g_count, g_buf, g_writes, g_found, g_results_count,
                   invVars, solveVars, alphaVars, searchVars>>

\* results_count_dev uses the storage of the immutable `static ZERO` as its host
\* pointer: a runtime that writes the counter back through it writes to read-only
\* memory, and the process may be killed at any point of the run
HostFault ==
    /\ g_pc = "launched"
    /\ g_pc' = "fault"
    /\ UNCHANGED <<g_lane, g_count, g_buf, g_writes, g_found, g_results_count, g_results,
                   invVars, solveVars, alphaVars, searchVars>>

NextGrid ==
    \/ \E l \in GridLanes : LaneFind(l)
    \/ \E l \in GridLanes : LaneClaim(l)
    \/ \E l \in GridLanes : LaneWrite(l)
    \/ \E l \in GridLanes : LaneSkip(l)
    \/ \E l \in GridLanes : LaneExit(l)
    \/ HostReadCount
    \/ HostReadResults
    \/ HostFault

SpecGrid == InitGrid /\ [][NextGrid]_vars

\* C8: under every interleaving each found match claims its slot by one atomic
\* fetch-and-increment, no two lanes write the same slot, no lane writes outside the
\* buffer, the consumer reads exactly min(counter, capacity) entries, each written by
\* exactly one lane, and the final counter is the number of matches found, also when
\* it exceeds the capacity.
C8_BufferAppend ==
    /\ \A l, m \in GridLanes :
          (l # m /\ g_lane[l].pc = "claimed" /\ g_lane[m].pc = "claimed")
              => g_lane[l].idx # g_lane[m].idx
    /\ g_count + Cardinality({l \in GridLanes : g_lane[l].pc = "found"}) = g_found
    /\ \A i \in 1..Len(g_buf) : g_buf[i] <= 1
    /\ \A w \in g_writes : w < Len(g_buf)
    /\ g_pc = "read" =>
          /\ Len(g_results) = Min(g_count, Len(g_buf))
          /\ \A i \in 1..Len(g_results) : g_results[i] = 1
          /\ g_count = g_found

\* the host has read a full buffer after the lanes found more matches than it holds
C8_Witness ==
    /\ g_pc = "read"
    /\ g_count > Len(g_buf)
    /\ Len(g_results) = Len(g_buf)

-----------------------------------------------------------------------------
(* SpecSolve: the trailing-character solve, on sampled bases, suffixes, targets
   and 32-bit candidates *)

MaxSolveX == 3      \* candidates 0..MaxSolveX, besides the named ones

\* the hash of base | x | suffix for a 32-bit x: the step of fnv_hash with x in the
\* place of `data[i] as u32`
HashWith(base, x, suf) ==
    fnv_fold(wrapping_add(wrapping_mul(fnv_hash(base), U32Of(FNV_PRIME)), x), suf)

\* lines 154-155: prefix_hash_base, then target_shift - prefix_hash_base
SolveOneLength(suf, base) ==
    LET prefix_hash_base == wrapping_mul(fnv_hash(base), U32Of(FNV_PRIME))
    IN  wrapping_sub(suf.target_shift, prefix_hash_base)

\* lines 187 and 199 for the frontier entry of `pre` and the symbol c:
\* next_hash_base = (hash_base + c) * FNV_PRIME, then target_shift - next_hash_base
SolveAtPop(suf, pre, c) ==
    LET hash_base      == wrapping_mul(fnv_hash(pre), U32Of(FNV_PRIME))
        next_hash_base == wrapping_mul(wrapping_add(hash_base, U32Of(c)),
                                       U32Of(FNV_PRIME))
    IN  wrapping_sub(suf.target_shift, next_hash_base)

SolveBases    == {<<>>, <<47>>, <<47, 109, 97>>, <<47, 111, 47, 109>>}
SolveSuffixes == {<<>>, <<46>>, <<46, 100, 99, 120>>}
TargetChars   == {ZERO32, <<0, 97>>, <<1, 46>>, <<W16 - 1, W16 - 1>>}
XSamples      == {U32Of(v) : v \in 0..MaxSolveX} \cup TargetChars
                     \cup {<<0, U8_MAX>>, <<2 ^ 15, 0>>}
\* TARGET = 0xd7255946
ProgramTarget == <<55077, 22854>>

InitSolve ==
    /\ so_pc = "call"
    /\ so_base \in SolveBases /\ so_suffix \in SolveSuffixes
    /\ so_target \in {HashWith(so_base, c, so_suffix) : c \in TargetChars}
                         \cup {ProgramTarget}
    /\ so_x \in XSamples
    /\ so_ret = <<>>
    /\ InvIdle /\ AlphaIdle /\ SearchIdle /\ GridIdle

\* the solve of the one-character step, with so_base as the prefix
SolveAtLengthOne ==
    /\ so_pc = "call"
    /\ so_ret' = <<[solved |-> SolveOneLength(PrecomputedSuffix_new(so_suffix, so_target),
                                              so_base),
                    hash   |-> HashWith(so_base, so_x, so_suffix)]>>
    /\ so_pc' = "ret"
    /\ UNCHANGED <<so_base, so_suffix, so_target, so_x,
                   invVars, alphaVars, searchVars, gridVars>>

\* the solve of a frontier pop: so_base is the popped entry's bytes and the symbol c
SolveAtFrontierPop ==
    /\ so_pc = "call" /\ so_base # <<>>
    /\ so_ret' = <<[solved |-> SolveAtPop(PrecomputedSuffix_new(so_suffix, so_target),
                                          Front(so_base), Last(so_base)),
                    hash   |-> HashWith(so_base, so_x, so_suffix)]>>
    /\ so_pc' = "pop"
    /\ UNCHANGED <<so_base, so_suffix, so_target, so_x,
                   invVars, alphaVars, searchVars, gridVars>>

NextSolve == SolveAtLengthOne \/ SolveAtFrontierPop

SpecSolve == InitSolve /\ [][NextSolve]_vars

\* C11: with target_shift = (target - hash(suffix)) * inverse(37^len(suffix)), for
\* every base and every 32-bit x, hash(base | x | suffix) == target iff
\* x == target_shift - hash(base) * 37; the value solved at the one-character step
\* and at a frontier pop is that unique completing value.
C11_SolveIsUnique ==
    so_ret # <<>> => (so_ret[1].hash = so_target <=> so_x = so_ret[1].solved)

\* a frontier pop solved the value 0x0001_002E that completes "/o/m" | x | ".dcx"
C11_Witness ==
    /\ so_pc = "pop" /\ so_ret # <<>>
    /\ Len(so_base) = 4 /\ Len(so_suffix) = 4
    /\ so_x = <<1, 46>> /\ so_ret[1].solved = so_x /\ so_ret[1].hash = so_target

====
